---- MODULE Spec2Model ----
(***************************************************************************)
(* Model of the stock ETL pipeline: validation (dags/utils/validators.py), *)
(* normalisation and merge (dags/utils/transformers.py), the BigQuery      *)
(* loaders (dags/utils/loaders.py), the data-quality operator              *)
(* (plugins/custom_operators/data_quality.py) and the DAG that runs them   *)
(* (dags/stock_etl.py).                                                    *)
(*                                                                         *)
(* A table is [cols, rows]: the set of column names of the frame and the   *)
(* sequence of its rows.  A row carries the cells the code computes with:  *)
(* date (a day number, ordered as the 'YYYY-MM-DD' strings are), symbol,   *)
(* data_source, close and volume.  The other columns (extracted_at,        *)
(* processed_at, the derived fields, date_temp) are modelled by presence.  *)
(* Prices are whole currency units.                                        *)
(***************************************************************************)
EXTENDS Integers, Sequences, FiniteSets, TLC

VARIABLES
    files,      \* local files: file name -> table, or NoFile
    today,      \* the current day (pd.Timestamp.now().normalize())
    df,         \* the frame handed to a validator, as the caller holds it
    report,     \* what the last validator call returned, or NoReport
    lastOp,     \* the last operation run, with its arguments and outcome
    dest,       \* rows of the destination table (a sequence read as a bag)
    staging,    \* rows of the staging (temp) table
    attempt,    \* the load attempt in progress or last finished
    taskState,  \* DAG run: state of each task instance
    run,        \* number of DAG runs started; 0 before the first
    gcs         \* the day's object in the bucket, or NoFile

vars == <<files, today, df, report, lastOp, dest, staging, attempt,
          taskState, run, gcs>>

fileVars == <<files>>
valVars  == <<df, report>>
loadVars == <<dest, staging, attempt>>
dagVars  == <<taskState, run, gcs>>

(***************************************************************************)
(* Values                                                                  *)
(***************************************************************************)
\* The missing value of a numeric or date cell (pandas NaN / NaT): an
\* integer outside every value domain of the model.
NaN == 0 - 999999

\* The missing value of a string cell.
NaS == "<NA>"

NoFile == [cols |-> {"<nofile>"}, rows |-> <<>>]

NoReport == [is_valid |-> FALSE, passed |-> FALSE, errors |-> <<>>,
             warnings |-> <<>>, ran |-> FALSE, df |-> NoFile]

\* Strings of the model in Python's string order.
StrOrder == <<"AAPL", "MSFT", "alpha_vantage", "other_feed", "yahoo_finance">>

StrRank(s) == CHOOSE i \in 1..Len(StrOrder) : StrOrder[i] = s

\* a < b for numeric or date cells, missing values last (na_position='last').
NumLess(a, b) == a # NaN /\ (b = NaN \/ a < b)

\* a < b for string cells, missing values last.
StrLess(a, b) == a # NaS /\ (b = NaS \/ StrRank(a) < StrRank(b))

Range(s) == {s[i] : i \in 1..Len(s)}

Max(S) == CHOOSE x \in S : \A y \in S : y <= x
Min(S) == CHOOSE x \in S : \A y \in S : x <= y

RawCols == {"date", "symbol", "open", "high", "low", "close", "volume",
            "data_source", "extracted_at"}

DerivedCols == {"processed_at", "daily_change_pct", "daily_volatility"}

TransformedCols == (RawCols \ {"extracted_at"}) \cup DerivedCols

BusinessKey == <<"date", "symbol", "data_source">>

(***************************************************************************)
(* pandas helpers                                                          *)
(***************************************************************************)
\* DataFrame.drop_duplicates(subset=key): keep the first row of each key.
RECURSIVE DropDuplicates(_, _)
DropDuplicates(rows, key) ==
    IF rows = <<>> THEN <<>>
    ELSE LET n    == Len(rows)
             init == DropDuplicates(SubSeq(rows, 1, n - 1), key)
             last == rows[n]
         IN  IF \E i \in 1..(n - 1) : \A k \in Range(key) : rows[i][k] = last[k]
             THEN init
             ELSE Append(init, last)

\* Number of rows df.duplicated(subset=key) marks: all but the first of each key.
DuplicatedCount(rows, key) == Len(rows) - Len(DropDuplicates(rows, key))

CellLess(a, b, col) ==
    IF col \in {"symbol", "data_source"} THEN StrLess(a, b) ELSE NumLess(a, b)

\* Lexicographic a < b on the columns by, in order.
RECURSIVE RowLess(_, _, _)
RowLess(a, b, by) ==
    IF by = <<>> THEN FALSE
    ELSE LET c == Head(by)
         IN  \/ CellLess(a[c], b[c], c)
             \/ (a[c] = b[c] /\ RowLess(a, b, Tail(by)))

\* Insert r after the rows that are not greater than it (stable).
RECURSIVE InsertSorted(_, _, _)
InsertSorted(sorted, r, by) ==
    IF sorted = <<>> THEN <<r>>
    ELSE IF RowLess(r, Head(sorted), by)
         THEN <<r>> \o sorted
         ELSE <<Head(sorted)>> \o InsertSorted(Tail(sorted), r, by)

\* DataFrame.sort_values(by): ascending, missing values last, ties in order.
RECURSIVE SortValues(_, _)
SortValues(rows, by) ==
    IF rows = <<>> THEN <<>>
    ELSE InsertSorted(SortValues(SubSeq(rows, 1, Len(rows) - 1), by),
                      rows[Len(rows)], by)

\* Series.unique(): the values of a column in order of first appearance.
RECURSIVE Unique(_, _)
Unique(rows, col) ==
    IF rows = <<>> THEN <<>>
    ELSE LET init == Unique(SubSeq(rows, 1, Len(rows) - 1), col)
             v    == rows[Len(rows)][col]
         IN  IF v \in Range(init) THEN init ELSE Append(init, v)

\* pd.concat(frames, ignore_index=True): rows in order, the union of the
\* columns (a column a frame lacks is filled with missing values, which is
\* what the rows of a frame without it already hold).
RECURSIVE Concat(_)
Concat(tables) ==
    IF tables = <<>> THEN [cols |-> {}, rows |-> <<>>]
    ELSE LET rest == Concat(Tail(tables))
         IN  [cols |-> Head(tables).cols \cup rest.cols,
              rows |-> Head(tables).rows \o rest.rows]

(***************************************************************************)
(* transformers.merge_stock_datasets                                       *)
(***************************************************************************)
\* The frames of the paths that can be read, in the order of input_paths: a
\* path pd.read_csv fails on is logged and skipped.
RECURSIVE ReadAll(_, _)
ReadAll(fs, input_paths) ==
    IF input_paths = <<>> THEN <<>>
    ELSE LET rest == ReadAll(fs, Tail(input_paths))
         IN  IF fs[Head(input_paths)] = NoFile
             THEN rest
             ELSE <<fs[Head(input_paths)]>> \o rest

\* Mutant: duplicates are dropped on (date, symbol) alone.
DedupSubsetDateSymbol == <<"date", "symbol">>

\* The subset of drop_duplicates and the columns of sort_values.
DedupSubset == <<"date", "symbol", "data_source">>
SortColumns == <<"date", "symbol", "data_source">>

\* Mutant: to_csv without index=False, which writes the index as one more
\* unnamed column that read_csv then reads back.
WriteCsvWithIndex(frame) ==
    [frame EXCEPT !.cols = @ \cup {IF "Unnamed: 0" \in @ THEN "Unnamed: 0.1"
                                                        ELSE "Unnamed: 0"}]

\* DataFrame.to_csv(path, index=False) followed by pd.read_csv(path): the
\* columns and the rows as they were, no index column.
WriteCsv(frame) == frame

\* Mutant: rows of one (date, symbol) from several feeds are combined, each
\* kept row taking the highest close of its group.
MergeCombiningSources(fs, input_paths) ==
    LET all_data == ReadAll(fs, input_paths)
    IN  IF all_data = <<>>
        THEN [raised |-> "ValueError", out |-> NoFile, logged |-> 0,
              warnings |-> <<>>]
        ELSE LET merged_data == Concat(all_data)
             IN  IF ~(Range(DedupSubset) \subseteq merged_data.cols)
                 THEN [raised |-> "KeyError", out |-> NoFile, logged |-> 0,
                       warnings |-> <<>>]
                 ELSE LET deduped == DropDuplicates(merged_data.rows, DedupSubset)
                          sorted  == SortValues(deduped, SortColumns)
                          Group(r) == {x \in Range(merged_data.rows) :
                                         x.date = r.date /\ x.symbol = r.symbol}
                          combined == [i \in 1..Len(sorted) |->
                                         [sorted[i] EXCEPT !.close =
                                             Max({x.close : x \in Group(sorted[i])})]]
                      IN  [raised   |-> "no",
                           out      |-> WriteCsv([cols |-> merged_data.cols,
                                                  rows |-> combined]),
                           logged   |-> Len(sorted),
                           warnings |-> <<>>]

\* What the function returns or raises, and the frame it writes to
\* output_path.  The return value is the output path alone: the function
\* builds no report and no warnings, and logs only the number of records
\* written.
merge_stock_datasets(fs, input_paths) ==
    LET all_data == ReadAll(fs, input_paths)
    IN  IF all_data = <<>>
        THEN [raised |-> "ValueError", out |-> NoFile, logged |-> 0,
              warnings |-> <<>>]
        ELSE LET merged_data == Concat(all_data)
             IN  IF ~(Range(DedupSubset) \subseteq merged_data.cols)
                 THEN [raised |-> "KeyError", out |-> NoFile, logged |-> 0,
                       warnings |-> <<>>]
                 ELSE LET deduped == DropDuplicates(merged_data.rows, DedupSubset)
                          sorted  == SortValues(deduped, SortColumns)
                      IN  [raised   |-> "no",
                           out      |-> WriteCsv([cols |-> merged_data.cols,
                                                  rows |-> sorted]),
                           logged   |-> Len(sorted),
                           warnings |-> <<>>]

(***************************************************************************)
(* transformers.transform_stock_data                                       *)
(***************************************************************************)
\* data['volume'].fillna(0).astype(int), when the frame has the column.
CoerceVolume(frame) ==
    IF "volume" \in frame.cols
    THEN [i \in 1..Len(frame.rows) |->
            [frame.rows[i] EXCEPT !.volume = IF @ = NaN THEN 0 ELSE @]]
    ELSE frame.rows

\* Mutant: the else branch that raises on an unknown source is missing.
AnySource(source) == TRUE

\* The sources the if / elif chain of the function knows.
KnownSource(source) == source \in {"alpha_vantage", "yahoo_finance"}

\* What the function raises, and the frame it writes to output_path: the
\* input with the volume coerced, the columns processed_at,
\* daily_change_pct and daily_volatility added, sorted by (symbol, date).
transform_stock_data(fs, input_path, source) ==
    IF fs[input_path] = NoFile
    THEN [raised |-> "FileNotFoundError", out |-> NoFile]
    ELSE IF ~KnownSource(source)
    THEN [raised |-> "ValueError", out |-> NoFile]
    ELSE IF ~({"date", "open", "high", "low", "close", "symbol"}
                  \subseteq fs[input_path].cols)
    THEN [raised |-> "KeyError", out |-> NoFile]
    ELSE [raised |-> "no",
          out    |-> WriteCsv([cols |-> fs[input_path].cols \cup DerivedCols,
                               rows |-> SortValues(CoerceVolume(fs[input_path]),
                                                   <<"symbol", "date">>)])]

(***************************************************************************)
(* validators                                                              *)
(***************************************************************************)
\* One entry of a report's errors or warnings list: what it reports, and the
\* count, symbol, date and names its text holds.
Msg(kind, n, symbol, date) ==
    [kind |-> kind, n |-> n, symbol |-> symbol, date |-> date, names |-> {}]

Err(kind) == Msg(kind, 0, NaS, NaN)

\* An entry that counts and lists names ("Missing 2 required symbols: ...").
NamesMsg(kind, names) ==
    [Msg(kind, Cardinality(names), NaS, NaN) EXCEPT !.names = names]

\* Mutant: the schema checks the presence of the columns and nothing else.
SchemaValidatesColumnsOnly(t, schemaCols) ==
    schemaCols \subseteq t.cols /\ t.rows # <<>>

\* pandera DataFrameSchema.validate for the three schemas of validators.py:
\* every declared column is present; date, symbol, close, data_source (and
\* the timestamp column, present means filled) hold no missing value; the
\* nullable float columns may; volume is declared Int, which a column with a
\* missing value (float64 in pandas) is not; a frame without rows read from
\* a CSV has object columns, which fail the Float and Int dtype checks.
SchemaValidates(t, schemaCols) ==
    /\ schemaCols \subseteq t.cols
    /\ t.rows # <<>>
    /\ \A i \in 1..Len(t.rows) :
          /\ t.rows[i].date # NaN
          /\ t.rows[i].symbol # NaS
          /\ t.rows[i].close # NaN
          /\ t.rows[i].data_source # NaS
          /\ t.rows[i].volume # NaN

get_raw_alpha_vantage_schema == RawCols
get_raw_yahoo_finance_schema == RawCols
get_transformed_data_schema == TransformedCols

HighPriceThreshold == 10000
HighVolumeThreshold == 1000000000
SpreadThresholdPct == 5
OneYearDays == 365

\* Mutant: the threshold compared with >= instead of >.
SpreadExceedsOrEquals(hi, lo) ==
    IF lo = 0 THEN hi > 0
    ELSE (hi - lo) * 100 >= SpreadThresholdPct * lo

\* (max - min) / min * 100 > 5 in floating point: a zero minimum gives inf
\* (greater than 5) when the maximum is positive and nan (not greater) when
\* it is zero too.
SpreadExceeds(hi, lo) ==
    IF lo = 0 THEN hi > 0
    ELSE (hi - lo) * 100 > SpreadThresholdPct * lo

\* The spread as the message prints it (f"{pct:.2f}"), in hundredths of a
\* percent; NaN stands for the inf printed when the minimum is zero.
SpreadPrinted(hi, lo) ==
    IF lo = 0 THEN NaN
    ELSE (2 * (hi - lo) * 10000 + lo) \div (2 * lo)

RowsWhere(rows, col, v) ==
    LET Test(r) == r[col] = v IN SelectSeq(rows, Test)

\* The price-consistency loop of validate_transformed_data for one symbol:
\* its dates in order of first appearance, a warning for each date with more
\* than one row whose spread exceeds the threshold.
RECURSIVE DateWarnings(_, _, _)
DateWarnings(symbol_data, dates, symbol) ==
    IF dates = <<>> THEN <<>>
    ELSE LET date         == Head(dates)
             date_data    == RowsWhere(symbol_data, "date", date)
             close_prices == {date_data[i].close : i \in 1..Len(date_data)}
             hi           == Max(close_prices)
             lo           == Min(close_prices)
             here == IF Len(date_data) > 1 /\ SpreadExceeds(hi, lo)
                     THEN <<Msg("price_inconsistency", SpreadPrinted(hi, lo),
                                symbol, date)>>
                     ELSE <<>>
         IN  here \o DateWarnings(symbol_data, Tail(dates), symbol)

RECURSIVE SymbolWarnings(_, _)
SymbolWarnings(rows, symbols) ==
    IF symbols = <<>> THEN <<>>
    ELSE LET symbol      == Head(symbols)
             symbol_data == RowsWhere(rows, "symbol", symbol)
         IN  DateWarnings(symbol_data, Unique(symbol_data, "date"), symbol)
             \o SymbolWarnings(rows, Tail(symbols))

ConsistencyWarnings(rows) ==
    IF Cardinality({rows[i].data_source : i \in 1..Len(rows)}) > 1
    THEN SymbolWarnings(rows, Unique(rows, "symbol"))
    ELSE <<>>

\* Mutant: a check appends its error and leaves passed as it was set at
\* the start of the function.
ReportPassedNotCleared(passed, errors, warnings, frame) ==
    [is_valid |-> passed, passed |-> TRUE, errors |-> errors,
     warnings |-> warnings, ran |-> TRUE, df |-> frame]

Report(passed, errors, warnings, frame) ==
    [is_valid |-> passed, passed |-> passed, errors |-> errors,
     warnings |-> warnings, ran |-> TRUE, df |-> frame]

\* Mutant: the negative-price check compares with -1 instead of 0.
HasCloseBelowMinusOne(rows) ==
    \E i \in 1..Len(rows) : rows[i].close # NaN /\ rows[i].close < 0 - 1

HasNegativeClose(rows) ==
    \E i \in 1..Len(rows) : rows[i].close # NaN /\ rows[i].close < 0

\* Mutant: rows dated today count as future (>= instead of >).
FutureDatesFromToday(rows, now) ==
    LET Test(r) == r.date # NaN /\ r.date >= now IN SelectSeq(rows, Test)

\* df[df['date_temp'] > today]: the rows dated after the start of today.
FutureDates(rows, now) ==
    LET Test(r) == r.date # NaN /\ r.date > now IN SelectSeq(rows, Test)

\* Mutant: a validation_type that names no schema is validated against the
\* Alpha Vantage schema instead of none.
ValidateRawDefaultSchema(t, validation_type, now) ==
    IF t.rows = <<>> \/ t.cols = {}
    THEN Report(FALSE, <<Err("empty")>>, <<>>, t)
    ELSE IF ~({"date", "symbol", "close", "data_source"} \subseteq t.cols)
    THEN Report(FALSE, <<Err("missing_columns")>>, <<>>, t)
    ELSE IF ~SchemaValidates(t, IF validation_type = "yahoo_finance"
                                THEN get_raw_yahoo_finance_schema
                                ELSE get_raw_alpha_vantage_schema)
    THEN Report(FALSE, <<Err("schema")>>, <<>>, t)
    ELSE IF HasNegativeClose(t.rows)
    THEN Report(FALSE, <<Err("negative_close")>>, <<>>, t)
    ELSE LET withTemp == [t EXCEPT !.cols = @ \cup {"date_temp"}]
             future   == FutureDates(t.rows, now)
         IN  IF future # <<>>
             THEN Report(FALSE, <<Msg("future_dates", Len(future), NaS, NaN)>>,
                         <<>>, withTemp)
             ELSE LET dates  == {t.rows[i].date : i \in 1..Len(t.rows)} \ {NaN}
                      old    == IF dates # {} /\ Min(dates) <= now - OneYearDays
                                THEN <<Err("older_than_one_year")>> ELSE <<>>
                      ndup   == DuplicatedCount(t.rows, <<"date", "symbol">>)
                      dups   == IF ndup > 0
                                THEN <<Msg("duplicates", ndup, NaS, NaN)>>
                                ELSE <<>>
                  IN  Report(TRUE, <<>>, old \o dups, withTemp)

\* validate_raw_data(df, validation_type) at the day now: the tuple it
\* returns and the frame as the call leaves it (the future-date check adds
\* the column date_temp to the caller's frame).
validate_raw_data(t, validation_type, now) ==
    IF t.rows = <<>> \/ t.cols = {}
    THEN Report(FALSE, <<Err("empty")>>, <<>>, t)
    ELSE IF ~({"date", "symbol", "close", "data_source"} \subseteq t.cols)
    THEN Report(FALSE, <<Err("missing_columns")>>, <<>>, t)
    ELSE IF /\ validation_type \in {"alpha_vantage", "yahoo_finance"}
            /\ ~SchemaValidates(t, IF validation_type = "alpha_vantage"
                                   THEN get_raw_alpha_vantage_schema
                                   ELSE get_raw_yahoo_finance_schema)
    THEN Report(FALSE, <<Err("schema")>>, <<>>, t)
    ELSE IF HasNegativeClose(t.rows)
    THEN Report(FALSE, <<Err("negative_close")>>, <<>>, t)
    ELSE LET withTemp == [t EXCEPT !.cols = @ \cup {"date_temp"}]
             future   == FutureDates(t.rows, now)
         IN  IF future # <<>>
             THEN Report(FALSE, <<Msg("future_dates", Len(future), NaS, NaN)>>,
                         <<>>, withTemp)
             ELSE LET dates  == {t.rows[i].date : i \in 1..Len(t.rows)} \ {NaN}
                      old    == IF dates # {} /\ Min(dates) <= now - OneYearDays
                                THEN <<Err("older_than_one_year")>> ELSE <<>>
                      ndup   == DuplicatedCount(t.rows, <<"date", "symbol">>)
                      dups   == IF ndup > 0
                                THEN <<Msg("duplicates", ndup, NaS, NaN)>>
                                ELSE <<>>
                  IN  Report(TRUE, <<>>, old \o dups, withTemp)

\* validate_transformed_data(df).
validate_transformed_data(t) ==
    IF ~SchemaValidates(t, get_transformed_data_schema)
    THEN Report(FALSE, <<Err("schema")>>, <<>>, t)
    ELSE IF HasNegativeClose(t.rows)
    THEN Report(FALSE, <<Err("negative_close")>>, <<>>, t)
    ELSE LET closes  == {t.rows[i].close : i \in 1..Len(t.rows)}
             volumes == {t.rows[i].volume : i \in 1..Len(t.rows)}
             price   == IF Max(closes) > HighPriceThreshold
                        THEN <<Msg("high_price", Max(closes), NaS, NaN)>>
                        ELSE <<>>
             volume  == IF Max(volumes) > HighVolumeThreshold
                        THEN <<Msg("high_volume", Max(volumes), NaS, NaN)>>
                        ELSE <<>>
             ndup    == DuplicatedCount(t.rows, BusinessKey)
             dups    == IF ndup > 0
                        THEN <<Msg("duplicates", ndup, NaS, NaN)>>
                        ELSE <<>>
         IN  Report(TRUE, <<>>,
                    price \o volume \o dups \o ConsistencyWarnings(t.rows), t)

\* validate_symbol_coverage(df, required_symbols).  A missing symbol is the
\* float nan among the strings of unique(): sorted() raises on the two
\* together and ', '.join on a nan, and the except clause of the function
\* turns what is raised into a failed report.
validate_symbol_coverage(t, required_symbols) ==
    IF ~("symbol" \in t.cols)
    THEN Report(FALSE, <<Err("symbol_column_missing")>>, <<>>, t)
    ELSE LET actual_symbols  == {t.rows[i].symbol : i \in 1..Len(t.rows)}
             missing_symbols == required_symbols \ actual_symbols
             extra_symbols   == actual_symbols \ required_symbols
         IN  IF NaS \in actual_symbols /\ Cardinality(actual_symbols) > 1
             THEN Report(FALSE, <<Err("exception")>>, <<>>, t)
             ELSE IF missing_symbols # {}
             THEN Report(FALSE, <<NamesMsg("missing_symbols", missing_symbols)>>,
                         <<>>, t)
             ELSE IF NaS \in extra_symbols
             THEN Report(FALSE, <<Err("exception")>>, <<>>, t)
             ELSE Report(TRUE, <<>>,
                         IF extra_symbols # {}
                         THEN <<NamesMsg("extra_symbols", extra_symbols)>>
                         ELSE <<>>,
                         t)

\* max_age_days of validate_data_freshness when the caller gives none.
DefaultMaxAgeDays == 1

\* validate_data_freshness(df, max_age_days) at the day now.  The newest
\* date of a frame without a date is NaT, whose strftime raises; the except
\* clause of the function turns that into a failed report.
validate_data_freshness(t, max_age_days, now) ==
    IF ~("date" \in t.cols)
    THEN Report(FALSE, <<Err("date_column_missing")>>, <<>>, t)
    ELSE LET dates       == {t.rows[i].date : i \in 1..Len(t.rows)} \ {NaN}
             cutoff_date == now - max_age_days
         IN  IF dates = {}
             THEN Report(FALSE, <<Err("exception")>>, <<>>, t)
             ELSE IF Max(dates) < cutoff_date
             THEN Report(FALSE, <<Msg("too_old", 0, NaS, Max(dates))>>, <<>>, t)
             ELSE Report(TRUE, <<>>, <<>>, t)

\* The columns of a frame in the order of the file.
ColumnOrder ==
    <<"date", "symbol", "open", "high", "low", "close", "volume", "data_source",
      "extracted_at", "processed_at", "daily_change_pct", "daily_volatility">>

\* The type check of one column against its BigQuery field.  The columns of
\* a frame without rows read from a CSV are of dtype object: not numeric,
\* and a string dtype or not by the pandas version (empty_is_string).  A
\* missing value makes an integer column float and a date column mixed.
TypeIssue(t, col, type, empty_is_string) ==
    IF type \in {"FLOAT", "FLOAT64"} THEN t.rows = <<>>
    ELSE IF type \in {"INTEGER", "INT64"}
    THEN t.rows = <<>> \/ \E i \in 1..Len(t.rows) : t.rows[i][col] = NaN
    ELSE IF type = "DATE"
    THEN IF t.rows = <<>> THEN ~empty_is_string
         ELSE \E i \in 1..Len(t.rows) : t.rows[i][col] = NaN
    ELSE FALSE

RECURSIVE TypeIssues(_, _, _, _)
TypeIssues(t, columns, bq_schema, empty_is_string) ==
    IF columns = <<>> THEN <<>>
    ELSE LET col   == Head(columns)
             field == {f \in bq_schema : f.name = col}
             here  == IF /\ col \in t.cols
                         /\ \E f \in field : TypeIssue(t, col, f.type, empty_is_string)
                      THEN <<NamesMsg("type_issue", {col})>>
                      ELSE <<>>
         IN  here \o TypeIssues(t, Tail(columns), bq_schema, empty_is_string)

\* validate_bigquery_schema_compatibility(df, bq_schema).
validate_bigquery_schema_compatibility(t, bq_schema, empty_is_string) ==
    LET bq_fields          == {f.name : f \in bq_schema}
        bq_required_fields == {f.name : f \in {g \in bq_schema : g.mode = "REQUIRED"}}
        missing_required   == bq_required_fields \ t.cols
        extra_columns      == t.cols \ bq_fields
    IN  IF missing_required # {}
        THEN Report(FALSE, <<NamesMsg("missing_required_fields", missing_required)>>,
                    <<>>, t)
        ELSE Report(TRUE, <<>>,
                    TypeIssues(t, ColumnOrder, bq_schema, empty_is_string)
                    \o (IF extra_columns # {}
                        THEN <<NamesMsg("extra_columns", extra_columns)>>
                        ELSE <<>>),
                    t)

(***************************************************************************)
(* custom_operators.DataQualityOperator.execute                            *)
(***************************************************************************)
\* Mutant: the operator raises on warnings too.
ExecuteRaisesOnWarnings(fs, data_path, callable, validation_type, now) ==
    IF fs[data_path] = NoFile
    THEN [raised |-> "FileNotFoundError", results |-> NoReport]
    ELSE LET results == IF callable = "validate_raw_data"
                        THEN validate_raw_data(fs[data_path], validation_type, now)
                        ELSE validate_transformed_data(fs[data_path])
         IN  [raised  |-> IF ~results.is_valid \/ results.warnings # <<>>
                          THEN "ValueError" ELSE "no",
              results |-> results]

\* Reads data_path, calls the validation callable (with validation_type
\* only when one is set) and raises when the callable says not valid.
DataQualityOperator_execute(fs, data_path, callable, validation_type, now) ==
    IF fs[data_path] = NoFile
    THEN [raised |-> "FileNotFoundError", results |-> NoReport]
    ELSE LET results == IF callable = "validate_raw_data"
                        THEN validate_raw_data(fs[data_path], validation_type, now)
                        ELSE validate_transformed_data(fs[data_path])
         IN  [raised  |-> IF ~results.is_valid THEN "ValueError" ELSE "no",
              results |-> results]

(***************************************************************************)
(* State shared by the specifications                                      *)
(***************************************************************************)
FileNames == {"raw_av", "raw_yf", "tr_av", "tr_yf", "merged"}

NoFiles == [f \in FileNames |-> NoFile]

Tasks == {"extract_alpha_vantage_data", "extract_yahoo_finance_data",
          "validate_raw_alpha_vantage_data", "validate_raw_yahoo_data",
          "transform_alpha_vantage_data", "transform_yahoo_finance_data",
          "merge_datasets", "validate_transformed_data", "upload_to_gcs",
          "load_to_bigquery"}

\* lastOp: op, the paths or table names it was given, the frames it read,
\* what it raised ("no" when it returned), the warnings it returned (a
\* merge returns none), the path an extractor returned, and two history
\* values: the number of rows the last merge removed as duplicates, and the
\* input paths of the merge that wrote the file a merge of its own output
\* read.
Op(op, paths, inputs, raised, removed, chain) ==
    [op |-> op, paths |-> paths, inputs |-> inputs, raised |-> raised,
     removed |-> removed, chain |-> chain, warnings |-> <<>>,
     returned |-> "none"]

NoOp == Op("none", <<>>, <<>>, "no", 0, <<>>)

\* attempt: the position of the load call (state), the function called
\* (mode), its input rows and key columns, the status and detail of the
\* result it returned, the rows the MERGE updated and inserted, and one
\* history value: replay, true when the call repeats the input and the keys
\* of the upsert committed just before it; and stale, true when the call
\* found rows other than its input in the staging table.
NoAttempt == [state |-> "NONE", mode |-> "none", data |-> <<>>,
              key_columns |-> {}, status |-> "none", detail |-> "none",
              updated |-> 0, inserted |-> 0, replay |-> FALSE,
              stale |-> FALSE]

IdleLoad ==
    /\ dest = <<>>
    /\ staging = <<>>
    /\ attempt = NoAttempt

IdleDag ==
    /\ taskState = [t \in Tasks |-> "none"]
    /\ run = 0
    /\ gcs = NoFile

(***************************************************************************)
(* SpecMerge: merge_stock_datasets and the validation of its output, over  *)
(* every pair of canonical input files within the bounds                   *)
(***************************************************************************)
\* Most rows the two input files hold together.
MaxRows == 2

\* The (date, symbol) pairs, feeds and prices of the rows of SpecMerge.  The
\* later date goes with the earlier symbol, so the order of the sort columns
\* shows; 105 is 5% above 100 exactly, 106 is above the threshold, and 106
\* is less than 5% above 105.
MergeSlots == {[date |-> 1, symbol |-> "MSFT"], [date |-> 2, symbol |-> "AAPL"]}
MergeSources == {"alpha_vantage", "yahoo_finance"}
MergeCloses == {100, 105, 106}

MergeRowSet ==
    {[date |-> s.date, symbol |-> s.symbol, data_source |-> src,
      close |-> c, volume |-> 7] :
        s \in MergeSlots, src \in MergeSources, c \in MergeCloses}

SeqsUpTo(S, n) == UNION {[1..k -> S] : k \in 0..n}

Canonical(rows) == [cols |-> TransformedCols, rows |-> rows]

\* The merged file does not exist before the first merge: a list that names
\* it names a path that cannot be read.
MergePathChoices ==
    {<<"tr_av">>, <<"tr_yf">>, <<"tr_av", "tr_yf">>, <<"tr_yf", "tr_av">>,
     <<"merged">>, <<"merged", "tr_yf">>, << >>}

InitMerge ==
    /\ \E all \in SeqsUpTo(MergeRowSet, MaxRows) :
          \E k \in 0..Len(all) :
              files = [NoFiles EXCEPT
                          !["tr_av"] = Canonical(SubSeq(all, 1, k)),
                          !["tr_yf"] = Canonical(SubSeq(all, k + 1, Len(all)))]
    /\ today = 2
    /\ df = NoFile
    /\ report = NoReport
    /\ lastOp = NoOp
    /\ IdleLoad
    /\ IdleDag

\* merge_stock_datasets(input_paths, '/tmp/merged_stock_data.csv').
MergeTask(input_paths) ==
    LET res    == merge_stock_datasets(files, input_paths)
        inputs == ReadAll(files, input_paths)
        total  == Len(Concat(inputs).rows)
    IN  /\ files' = IF res.raised = "no"
                    THEN [files EXCEPT !["merged"] = res.out]
                    ELSE files
        /\ lastOp' = [Op("merge", input_paths, inputs, res.raised,
                         IF res.raised = "no" THEN total - res.logged ELSE 0,
                         IF input_paths = <<"merged">> /\ lastOp.op = "merge"
                            /\ lastOp.raised = "no"
                         THEN lastOp.paths ELSE << >>)
                       EXCEPT !.warnings = res.warnings]
        /\ UNCHANGED <<today, df, report, loadVars, dagVars>>

\* The validate_transformed_data task of the DAG on the merged file.
ValidateMergedTask ==
    LET res == DataQualityOperator_execute(files, "merged",
                   "validate_transformed_data", "none", today)
    IN  /\ res.raised # "FileNotFoundError"
        /\ df' = res.results.df
        /\ report' = res.results
        /\ lastOp' = Op("validate_transformed_data", <<"merged">>,
                        <<files["merged"]>>, res.raised, lastOp.removed, << >>)
        /\ UNCHANGED <<files, today, loadVars, dagVars>>

\* Each pair of input files is merged once, from any list of the input
\* paths; the output is then merged again or validated.
NextMerge ==
    \/ /\ lastOp.op = "none"
       /\ \E input_paths \in MergePathChoices : MergeTask(input_paths)
    \/ /\ lastOp.op = "merge" /\ lastOp.raised = "no"
       /\ lastOp.paths # <<"merged">>
       /\ MergeTask(<<"merged">>)
    \/ /\ lastOp.op = "merge" /\ lastOp.raised = "no"
       /\ ValidateMergedTask

SpecMerge == InitMerge /\ [][NextMerge]_vars

(***************************************************************************)
(* SpecValidate: the validators called on every frame within the bounds    *)
(***************************************************************************)
\* Most rows of the frame handed to a validator.
MaxValRows == 2

\* The day the validators run.
ValToday == 400

ValBase == [date |-> ValToday, symbol |-> "AAPL",
            data_source |-> "alpha_vantage", close |-> 100, volume |-> 7]

\* The rows of SpecValidate: a plain row and the rows that differ from it in
\* the cell one check looks at (and, for the other feed, in the price); the
\* last is a row stamped with a feed the DAG does not configure.
ValRowSet ==
    {ValBase}
    \cup {[ValBase EXCEPT !.close = c] : c \in {0 - 1, 0, NaN, 10001}}
    \cup {[ValBase EXCEPT !.date = d] :
            d \in {ValToday + 1, ValToday - 1, ValToday - OneYearDays, NaN}}
    \cup {[ValBase EXCEPT !.symbol = "MSFT"], [ValBase EXCEPT !.symbol = NaS]}
    \cup {[ValBase EXCEPT !.volume = v] : v \in {NaN, 1000000001}}
    \cup {[ValBase EXCEPT !.data_source = "yahoo_finance", !.close = c] :
            c \in {105, 106}}
    \cup {[ValBase EXCEPT !.data_source = "other_feed"]}

ValColChoices ==
    {RawCols, TransformedCols, RawCols \ {"close"}, RawCols \ {"extracted_at"},
     RawCols \cup DerivedCols, RawCols \ {"date", "symbol"}}

\* A frame with the given columns: the cells of a column it lacks are missing.
Frame(cols, rows) ==
    [cols |-> cols,
     rows |-> [i \in 1..Len(rows) |->
                [date        |-> IF "date" \in cols THEN rows[i].date ELSE NaN,
                 symbol      |-> IF "symbol" \in cols THEN rows[i].symbol ELSE NaS,
                 data_source |-> IF "data_source" \in cols
                                 THEN rows[i].data_source ELSE NaS,
                 close       |-> IF "close" \in cols THEN rows[i].close ELSE NaN,
                 volume      |-> IF "volume" \in cols THEN rows[i].volume ELSE NaN]]]

ValidationTypes == {"alpha_vantage", "yahoo_finance", "none", "other_feed"}

\* The frame is in memory for a direct call of a validator and on disk, as
\* the raw file, for the operator.
InitValidate ==
    /\ \E cols \in ValColChoices, rows \in SeqsUpTo(ValRowSet, MaxValRows) :
          /\ df = Frame(cols, rows)
          /\ files = [NoFiles EXCEPT !["raw_av"] = Frame(cols, rows)]
    /\ today = ValToday
    /\ report = NoReport
    /\ lastOp = NoOp
    /\ IdleLoad
    /\ IdleDag

\* validate_raw_data(df, validation_type) called on the frame.
ValidateRawCall(validation_type) ==
    LET res == validate_raw_data(df, validation_type, today)
    IN  /\ df' = res.df
        /\ report' = res
        /\ lastOp' = Op("validate_raw_data", <<validation_type>>, <<df>>,
                        "no", 0, << >>)
        /\ UNCHANGED <<files, today, loadVars, dagVars>>

\* validate_transformed_data(df) called on the frame.
ValidateTransformedCall ==
    LET res == validate_transformed_data(df)
    IN  /\ df' = res.df
        /\ report' = res
        /\ lastOp' = Op("validate_transformed_data", << >>, <<df>>,
                        "no", 0, << >>)
        /\ UNCHANGED <<files, today, loadVars, dagVars>>

\* DataQualityOperator(data_path, validation_callable, validation_type)
\* executed: the frame it read and validated, the results, and what it
\* raised.  The path of the merged file names a file that does not exist.
ExecuteCall(data_path, callable, validation_type) ==
    LET res == DataQualityOperator_execute(files, data_path, callable,
                                           validation_type, today)
    IN  /\ df' = res.results.df
        /\ report' = res.results
        /\ lastOp' = Op("execute", <<callable, validation_type>>,
                        <<files[data_path]>>, res.raised, 0, << >>)
        /\ UNCHANGED <<files, today, loadVars, dagVars>>

\* The lists of required symbols of SpecValidate.
RequiredSymbolChoices == SUBSET {"AAPL", "MSFT"}

\* validate_symbol_coverage(df, required_symbols) called on the frame.
SymbolCoverageCall(required_symbols) ==
    LET res == validate_symbol_coverage(df, required_symbols)
    IN  /\ df' = res.df
        /\ report' = res
        /\ lastOp' = Op("validate_symbol_coverage", <<required_symbols>>, <<df>>,
                        "no", 0, << >>)
        /\ UNCHANGED <<files, today, loadVars, dagVars>>

\* The values of max_age_days of SpecValidate.
MaxAgeChoices == {0, DefaultMaxAgeDays}

\* validate_data_freshness(df, max_age_days) called on the frame.
FreshnessCall(max_age_days) ==
    LET res == validate_data_freshness(df, max_age_days, today)
    IN  /\ df' = res.df
        /\ report' = res
        /\ lastOp' = Op("validate_data_freshness", <<max_age_days>>, <<df>>,
                        "no", 0, << >>)
        /\ UNCHANGED <<files, today, loadVars, dagVars>>

Field(name, type, mode) == [name |-> name, type |-> type, mode |-> mode]

\* The schema of the destination table, as the load task of the DAG gives it.
schema_fields ==
    {Field("date", "DATE", "REQUIRED"), Field("symbol", "STRING", "REQUIRED"),
     Field("open", "FLOAT", "NULLABLE"), Field("high", "FLOAT", "NULLABLE"),
     Field("low", "FLOAT", "NULLABLE"), Field("close", "FLOAT", "REQUIRED"),
     Field("volume", "INTEGER", "NULLABLE"),
     Field("data_source", "STRING", "REQUIRED"),
     Field("processed_at", "TIMESTAMP", "REQUIRED")}

\* The schemas of SpecValidate: the destination's, and the same without the
\* field a raw frame lacks.
BqSchemaChoices ==
    {schema_fields, schema_fields \ {Field("processed_at", "TIMESTAMP", "REQUIRED")}}

\* validate_bigquery_schema_compatibility(df, bq_schema) called on the frame.
BqCompatibilityCall(bq_schema, empty_is_string) ==
    LET res == validate_bigquery_schema_compatibility(df, bq_schema,
                                                      empty_is_string)
    IN  /\ df' = res.df
        /\ report' = res
        /\ lastOp' = Op("validate_bigquery_schema_compatibility",
                        <<{f.name : f \in bq_schema}>>, <<df>>, "no", 0, << >>)
        /\ UNCHANGED <<files, today, loadVars, dagVars>>

\* Each frame is handed to one validator, directly or by the operator.
NextValidate ==
    \/ /\ lastOp.op = "none"
       /\ \E validation_type \in ValidationTypes : ValidateRawCall(validation_type)
    \/ /\ lastOp.op = "none"
       /\ ValidateTransformedCall
    \/ /\ lastOp.op = "none"
       /\ \E data_path \in {"raw_av", "merged"} :
              \/ \E validation_type \in ValidationTypes :
                     ExecuteCall(data_path, "validate_raw_data", validation_type)
              \/ ExecuteCall(data_path, "validate_transformed_data", "none")
    \/ /\ lastOp.op = "none"
       /\ \E required_symbols \in RequiredSymbolChoices :
              SymbolCoverageCall(required_symbols)
    \/ /\ lastOp.op = "none"
       /\ \E max_age_days \in MaxAgeChoices : FreshnessCall(max_age_days)
    \/ /\ lastOp.op = "none"
       /\ \E bq_schema \in BqSchemaChoices, empty_is_string \in BOOLEAN :
              BqCompatibilityCall(bq_schema, empty_is_string)

SpecValidate == InitValidate /\ [][NextValidate]_vars

(***************************************************************************)
(* SpecTransform: transform_stock_data called on every raw file within the *)
(* bounds, with a configured source or another one                         *)
(***************************************************************************)
\* Most rows of the raw file.
MaxTransformRows == 2

\* Most calls made on one raw file.
MaxTransformCalls == 2

TransformBase == [date |-> 2, symbol |-> "AAPL",
                  data_source |-> "alpha_vantage", close |-> 100, volume |-> 7]

\* The rows of SpecTransform: a plain row, rows that sort before and after
\* it, and rows with a missing and with a negative volume.
TransformRowSet ==
    {TransformBase, [TransformBase EXCEPT !.date = 1],
     [TransformBase EXCEPT !.symbol = "MSFT", !.date = 1],
     [TransformBase EXCEPT !.volume = NaN],
     [TransformBase EXCEPT !.volume = 0 - 5]}

TransformColChoices == {RawCols, RawCols \ {"volume"}, RawCols \ {"open"}}

TransformSources == {"alpha_vantage", "yahoo_finance", "other_feed", "none"}

InitTransform ==
    /\ \E cols \in TransformColChoices,
          rows \in SeqsUpTo(TransformRowSet, MaxTransformRows) :
          files = [NoFiles EXCEPT !["raw_av"] = Frame(cols, rows)]
    /\ today = 2
    /\ df = NoFile
    /\ report = NoReport
    /\ lastOp = NoOp
    /\ IdleLoad
    /\ IdleDag

\* transform_stock_data('/tmp/alpha_vantage_data.csv',
\* '/tmp/transformed_alpha_vantage_data.csv', source).  lastOp.chain keeps
\* the sources of the calls made so far.
TransformCall(source) ==
    LET res == transform_stock_data(files, "raw_av", source)
    IN  /\ Len(lastOp.chain) < MaxTransformCalls
        /\ files' = IF res.raised = "no"
                    THEN [files EXCEPT !["tr_av"] = res.out]
                    ELSE files
        /\ lastOp' = Op("transform_stock_data", <<source>>, <<files["raw_av"]>>,
                        res.raised, 0, Append(lastOp.chain, source))
        /\ UNCHANGED <<today, df, report, loadVars, dagVars>>

NextTransform == \E source \in TransformSources : TransformCall(source)

SpecTransform == InitTransform /\ [][NextTransform]_vars

(***************************************************************************)
(* loaders.load_to_bigquery and loaders.upsert_to_bigquery                 *)
(***************************************************************************)
\* The columns of the tables, as the staging table's schema lists them.
TableColumns == {"date", "symbol", "data_source", "close", "volume"}

AllColumns == <<"date", "symbol", "data_source", "close", "volume">>

NullOf(col) == IF col \in {"symbol", "data_source"} THEN NaS ELSE NaN

\* A table of the warehouse has no row order: its rows are kept sorted.
AsTable(rows) == SortValues(rows, AllColumns)

\* Mutant: the load job appends whatever the write disposition is.
LoadJobAlwaysAppends(table, data, write_disposition) == AsTable(table \o data)

\* LoadJobConfig.write_disposition applied by a load job that succeeds.
LoadJob(table, data, write_disposition) ==
    IF write_disposition = "WRITE_TRUNCATE"
    THEN AsTable(data)
    ELSE AsTable(table \o data)

\* Mutant: the key comparisons joined with OR instead of AND.
MergeOnAny(t, s, key_columns) ==
    \E col \in key_columns : t[col] # NullOf(col) /\ t[col] = s[col]

\* ON T.k1 = S.k1 AND T.k2 = S.k2 ...: SQL equality, which is not true of
\* two NULLs.
MergeOn(t, s, key_columns) ==
    \A col \in key_columns : t[col] # NullOf(col) /\ t[col] = s[col]

\* update_columns: the columns of the staging table that are not keys.
UpdateColumns(key_columns) == TableColumns \ key_columns

\* The statement is one BigQuery can run: the ON and the UPDATE SET lists
\* are not empty and every key column is a column of the staging table.
MergeQueryValid(key_columns) ==
    /\ key_columns # {}
    /\ key_columns \subseteq TableColumns
    /\ UpdateColumns(key_columns) # {}

\* A MERGE fails when a row of the target matches more than one row of the
\* source.
MergeMatchesOnce(target, source, key_columns) ==
    \A i \in 1..Len(target) :
        Cardinality({j \in 1..Len(source) :
                        MergeOn(target[i], source[j], key_columns)}) <= 1

\* WHEN MATCHED THEN UPDATE SET T.c = S.c for the update columns.
MergeUpdate(t, source, key_columns) ==
    IF \E j \in 1..Len(source) : MergeOn(t, source[j], key_columns)
    THEN LET s == source[CHOOSE j \in 1..Len(source) :
                            MergeOn(t, source[j], key_columns)]
         IN  [col \in TableColumns |->
                 IF col \in UpdateColumns(key_columns) THEN s[col] ELSE t[col]]
    ELSE t

\* WHEN NOT MATCHED THEN INSERT: the source rows no target row matches.
MergeInserts(target, source, key_columns) ==
    LET Unmatched(s) == \A i \in 1..Len(target) : ~MergeOn(target[i], s, key_columns)
    IN  SelectSeq(source, Unmatched)

\* The MERGE statement of upsert_to_bigquery run on target and source.
MergeStatement(target, source, key_columns) ==
    IF ~MergeQueryValid(key_columns)
    THEN [ok |-> FALSE, detail |-> "invalid_query", rows |-> target,
          updated |-> 0, inserted |-> 0]
    ELSE IF ~MergeMatchesOnce(target, source, key_columns)
    THEN [ok |-> FALSE, detail |-> "multiple_match", rows |-> target,
          updated |-> 0, inserted |-> 0]
    ELSE LET ins == MergeInserts(target, source, key_columns)
             upd == [i \in 1..Len(target) |->
                        MergeUpdate(target[i], source, key_columns)]
         IN  [ok |-> TRUE, detail |-> "none", rows |-> AsTable(upd \o ins),
              updated  |-> Cardinality({i \in 1..Len(target) :
                              \E j \in 1..Len(source) :
                                  MergeOn(target[i], source[j], key_columns)}),
              inserted |-> Len(ins)]

(***************************************************************************)
(* SpecLoad: load attempts on the destination table, step by step          *)
(***************************************************************************)
\* Most rows of an input file, and most rows the destination is let grow to.
MaxLoadRows == 2
MaxDestRows == 4

LoadBase == [date |-> 1, symbol |-> "AAPL", data_source |-> "alpha_vantage",
             close |-> 100, volume |-> 7]

\* The rows of SpecLoad: one key with two prices, a second key, and a row
\* with a NULL in the nullable column volume.
LoadRowSet ==
    {LoadBase, [LoadBase EXCEPT !.close = 105], [LoadBase EXCEPT !.date = 2],
     [LoadBase EXCEPT !.volume = NaN]}

\* The key column lists of SpecLoad: the business key, a key with the
\* nullable column, and an empty list.
KeyChoices == {{"date", "symbol", "data_source"}, {"date", "volume"}, {}}

\* Input files, one for each bag of rows (the row order of a file has no
\* effect on a table).
LoadInputs == {d \in SeqsUpTo(LoadRowSet, MaxLoadRows) : d = AsTable(d)}

Finished == attempt.state \in {"NONE", "COMMITTED", "FAILED", "RAISED"}

InitLoad ==
    /\ IdleLoad
    /\ files = NoFiles
    /\ today = 2
    /\ df = NoFile
    /\ report = NoReport
    /\ lastOp = NoOp
    /\ IdleDag

\* upsert_to_bigquery is called: PENDING.
UpsertBegin(data, key_columns) ==
    /\ Finished
    /\ Len(dest) + Len(data) <= MaxDestRows
    /\ attempt' = [NoAttempt EXCEPT
                      !.state = "PENDING", !.mode = "upsert", !.data = data,
                      !.key_columns = key_columns,
                      !.replay = /\ attempt.state = "COMMITTED"
                                 /\ attempt.mode = "upsert"
                                 /\ attempt.data = data
                                 /\ attempt.key_columns = key_columns,
                      !.stale = staging # <<>> /\ staging # data]
    /\ UNCHANGED <<dest, staging, files, today, valVars, lastOp, dagVars>>

\* load_to_bigquery(write_disposition='WRITE_APPEND') is called: PENDING.
AppendBegin(data) ==
    /\ Finished
    /\ Len(dest) + Len(data) <= MaxDestRows
    /\ attempt' = [NoAttempt EXCEPT
                      !.state = "PENDING", !.mode = "append", !.data = data]
    /\ UNCHANGED <<dest, staging, files, today, valVars, lastOp, dagVars>>

\* bigquery.Client(), os.path.getsize or open raises: they are outside the
\* try blocks, or raise what the except clauses do not catch.
ClientRaises ==
    /\ attempt.state = "PENDING"
    /\ attempt' = [attempt EXCEPT !.state = "RAISED"]
    /\ UNCHANGED <<dest, staging, files, today, valVars, lastOp, dagVars>>

\* The staging load of an upsert succeeds: the staging table is overwritten
\* with the input (WRITE_TRUNCATE).  STAGED.
StageLoad ==
    /\ attempt.state = "PENDING" /\ attempt.mode = "upsert"
    /\ staging' = LoadJob(staging, attempt.data, "WRITE_TRUNCATE")
    /\ attempt' = [attempt EXCEPT !.state = "STAGED"]
    /\ UNCHANGED <<dest, files, today, valVars, lastOp, dagVars>>

\* The staging load returns an error (GoogleCloudError from the load job, or
\* from get_table after the job is done): the upsert returns that result.
StageLoadFails(job_done) ==
    /\ attempt.state = "PENDING" /\ attempt.mode = "upsert"
    /\ staging' = IF job_done
                  THEN LoadJob(staging, attempt.data, "WRITE_TRUNCATE")
                  ELSE staging
    /\ attempt' = [attempt EXCEPT !.state = "FAILED", !.status = "error",
                                  !.detail = "load_job"]
    /\ UNCHANGED <<dest, files, today, valVars, lastOp, dagVars>>

\* The load job of an append succeeds and the result is returned.
AppendLoad ==
    /\ attempt.state = "PENDING" /\ attempt.mode = "append"
    /\ dest' = LoadJob(dest, attempt.data, "WRITE_APPEND")
    /\ attempt' = [attempt EXCEPT !.state = "COMMITTED", !.status = "success"]
    /\ UNCHANGED <<staging, files, today, valVars, lastOp, dagVars>>

\* The append returns an error (from the load job, or from get_table after
\* the job is done).
AppendLoadFails(job_done) ==
    /\ attempt.state = "PENDING" /\ attempt.mode = "append"
    /\ dest' = IF job_done THEN LoadJob(dest, attempt.data, "WRITE_APPEND")
                           ELSE dest
    /\ attempt' = [attempt EXCEPT !.state = "FAILED", !.status = "error",
                                  !.detail = "load_job"]
    /\ UNCHANGED <<staging, files, today, valVars, lastOp, dagVars>>

\* client.query(merge_query): the MERGE job runs on the destination and the
\* staging table.  MERGED, or FAILED when BigQuery refuses the statement.
MergeQuery ==
    /\ attempt.state = "STAGED"
    /\ LET res == MergeStatement(dest, staging, attempt.key_columns)
       IN  /\ dest' = res.rows
           /\ attempt' = IF res.ok
                         THEN [attempt EXCEPT !.state = "MERGED",
                                              !.updated = res.updated,
                                              !.inserted = res.inserted]
                         ELSE [attempt EXCEPT !.state = "FAILED",
                                              !.status = "error",
                                              !.detail = res.detail]
    /\ UNCHANGED <<staging, files, today, valVars, lastOp, dagVars>>

\* get_table or the query raises a GoogleCloudError of the service.
MergeQueryFails ==
    /\ attempt.state = "STAGED"
    /\ attempt' = [attempt EXCEPT !.state = "FAILED", !.status = "error",
                                  !.detail = "query"]
    /\ UNCHANGED <<dest, staging, files, today, valVars, lastOp, dagVars>>

\* query_job.result() raises a GoogleCloudError while waiting for the job
\* (the MERGE itself has run on the server): the upsert returns an error.
MergeResultFails ==
    /\ attempt.state = "MERGED"
    /\ attempt' = [attempt EXCEPT !.state = "FAILED", !.status = "error",
                                  !.detail = "query"]
    /\ UNCHANGED <<dest, staging, files, today, valVars, lastOp, dagVars>>

\* Mutant: the upsert returns success once staging is loaded, without
\* running the MERGE.
UpsertReturnBeforeMerge ==
    /\ attempt.state = "STAGED"
    /\ attempt' = [attempt EXCEPT !.state = "COMMITTED", !.status = "success"]
    /\ UNCHANGED <<dest, staging, files, today, valVars, lastOp, dagVars>>

\* query_job.result() returns and the upsert returns its result with status
\* success.  COMMITTED.
UpsertReturn ==
    /\ attempt.state = "MERGED"
    /\ attempt' = [attempt EXCEPT !.state = "COMMITTED", !.status = "success"]
    /\ UNCHANGED <<dest, staging, files, today, valVars, lastOp, dagVars>>

NextLoad ==
    \/ \E data \in LoadInputs, key_columns \in KeyChoices :
           UpsertBegin(data, key_columns)
    \/ \E data \in LoadInputs : AppendBegin(data)
    \/ ClientRaises
    \/ StageLoad
    \/ \E job_done \in BOOLEAN : StageLoadFails(job_done)
    \/ AppendLoad
    \/ \E job_done \in BOOLEAN : AppendLoadFails(job_done)
    \/ MergeQuery
    \/ MergeQueryFails
    \/ MergeResultFails
    \/ UpsertReturn

SpecLoad == InitLoad /\ [][NextLoad]_vars

(***************************************************************************)
(* Spec: the DAG stock_data_etl_pipeline, run after run.  The DAG file     *)
(* declares ten tasks and no dependency between them, so within a run the  *)
(* tasks execute in any order.  A task instance that fails is retried      *)
(* (default_args, retries 3); a failure that a retry recovers from leaves  *)
(* the instance as it was before, so the steps of the model are the        *)
(* attempts that succeed and the failures that outlast the retries.  The   *)
(* validation reports go to XCom and no task reads them, so Spec keeps     *)
(* only the task states, the files, the day's object and the destination.  *)
(***************************************************************************)
\* Most DAG runs the model follows.
MaxRuns == 2

\* Days of history an extraction returns, the latest being the day of the
\* run.  The feeds return 100 data points and one month; the schedule is
\* daily, so the windows of consecutive runs overlap.
Window == 2

\* The day of the first run.
StartDay == 10

RawPath(source) == IF source = "alpha_vantage" THEN "raw_av" ELSE "raw_yf"
TransformedPath(source) == IF source = "alpha_vantage" THEN "tr_av" ELSE "tr_yf"

ExtractTask(source) ==
    IF source = "alpha_vantage" THEN "extract_alpha_vantage_data"
                                ELSE "extract_yahoo_finance_data"
ValidateRawTaskId(source) ==
    IF source = "alpha_vantage" THEN "validate_raw_alpha_vantage_data"
                                ELSE "validate_raw_yahoo_data"
TransformTask(source) ==
    IF source = "alpha_vantage" THEN "transform_alpha_vantage_data"
                                ELSE "transform_yahoo_finance_data"

\* The frame an extractor writes on day now: one row per day of the window
\* for the symbol, the feed's name in data_source.
Extracted(source, now) ==
    [cols |-> RawCols,
     rows |-> [i \in 1..Window |->
                 [date |-> now - Window + i, symbol |-> "AAPL",
                  data_source |-> source,
                  close |-> IF source = "alpha_vantage" THEN 100 ELSE 106,
                  volume |-> 7]]]

\* Mutant: the scheduler does not look at the runs in flight (no
\* max_active_runs).
NoRunActive == FALSE

\* A run is in flight from its start until each of its tasks has finished.
RunActive == run > 0 /\ \E t \in Tasks : taskState[t] = "none"

Ready(t) == run > 0 /\ taskState[t] = "none"

Finish(t, raised) ==
    taskState' = [taskState EXCEPT ![t] = IF raised = "no" THEN "success"
                                                           ELSE "failed"]

Init ==
    /\ files = NoFiles
    /\ today = StartDay
    /\ df = NoFile
    /\ report = NoReport
    /\ lastOp = NoOp
    /\ IdleLoad
    /\ IdleDag

\* The scheduler starts the next daily run once no run is in flight
\* (max_active_runs=1).  The object path of the upload and of the load
\* carries the day, so the day's object does not exist yet.
StartRun ==
    /\ ~RunActive
    /\ run < MaxRuns
    /\ run' = run + 1
    /\ today' = IF run = 0 THEN today ELSE today + 1
    /\ taskState' = [t \in Tasks |-> "none"]
    /\ gcs' = NoFile
    /\ UNCHANGED <<lastOp, files, df, report, dest, staging, attempt>>

\* extract_alpha_vantage_data / extract_yahoo_finance_data: writes the raw
\* file, or raises when no symbol could be extracted.
Extract(source, extracted) ==
    /\ Ready(ExtractTask(source))
    /\ Finish(ExtractTask(source), IF extracted THEN "no" ELSE "ValueError")
    /\ files' = IF extracted
                THEN [files EXCEPT ![RawPath(source)] = Extracted(source, today)]
                ELSE files
    /\ UNCHANGED <<lastOp, today, df, report, dest, staging, attempt, run, gcs>>

\* validate_raw_alpha_vantage_data / validate_raw_yahoo_data
ValidateRawTask(source) ==
    LET res == DataQualityOperator_execute(files, RawPath(source),
                                           "validate_raw_data", source, today)
    IN  /\ Ready(ValidateRawTaskId(source))
        /\ Finish(ValidateRawTaskId(source), res.raised)
        /\ UNCHANGED <<lastOp, files, today, df, report, dest, staging, attempt,
                       run, gcs>>

\* transform_alpha_vantage_data / transform_yahoo_finance_data
Transform(source) ==
    LET res == transform_stock_data(files, RawPath(source), source)
    IN  /\ Ready(TransformTask(source))
        /\ Finish(TransformTask(source), res.raised)
        /\ files' = IF res.raised = "no"
                    THEN [files EXCEPT ![TransformedPath(source)] = res.out]
                    ELSE files
        /\ UNCHANGED <<lastOp, today, df, report, dest, staging, attempt, run, gcs>>

\* merge_datasets
MergeDatasets ==
    LET res == merge_stock_datasets(files, <<"tr_av", "tr_yf">>)
    IN  /\ Ready("merge_datasets")
        /\ Finish("merge_datasets", res.raised)
        /\ files' = IF res.raised = "no"
                    THEN [files EXCEPT !["merged"] = res.out]
                    ELSE files
        /\ UNCHANGED <<lastOp, today, df, report, dest, staging, attempt, run, gcs>>

\* validate_transformed_data
ValidateTransformedTask ==
    LET res == DataQualityOperator_execute(files, "merged",
                                           "validate_transformed_data",
                                           "none", today)
    IN  /\ Ready("validate_transformed_data")
        /\ Finish("validate_transformed_data", res.raised)
        /\ UNCHANGED <<lastOp, files, today, df, report, dest, staging, attempt,
                       run, gcs>>

\* upload_to_gcs: copies the merged file to the day's object, replacing it.
UploadToGcs(uploaded) ==
    LET ok == uploaded /\ files["merged"] # NoFile
    IN  /\ Ready("upload_to_gcs")
        /\ Finish("upload_to_gcs", IF ok THEN "no" ELSE "AirflowException")
        /\ gcs' = IF ok THEN files["merged"] ELSE gcs
        /\ UNCHANGED <<lastOp, files, today, df, report, dest, staging, attempt, run>>

\* load_to_bigquery: a load job of the day's object into the destination
\* table with write_disposition WRITE_APPEND.
LoadToBigquery(loaded) ==
    LET ok == loaded /\ gcs # NoFile
    IN  /\ Ready("load_to_bigquery")
        /\ Finish("load_to_bigquery", IF ok THEN "no" ELSE "AirflowException")
        /\ dest' = IF ok THEN LoadJob(dest, gcs.rows, "WRITE_APPEND") ELSE dest
        /\ UNCHANGED <<lastOp, files, today, df, report, staging, attempt, run, gcs>>

Next ==
    \/ StartRun
    \/ \E source \in {"alpha_vantage", "yahoo_finance"}, extracted \in BOOLEAN :
          Extract(source, extracted)
    \/ \E source \in {"alpha_vantage", "yahoo_finance"} : ValidateRawTask(source)
    \/ \E source \in {"alpha_vantage", "yahoo_finance"} : Transform(source)
    \/ MergeDatasets
    \/ ValidateTransformedTask
    \/ \E uploaded \in BOOLEAN : UploadToGcs(uploaded)
    \/ \E loaded \in BOOLEAN : LoadToBigquery(loaded)

Spec == Init /\ [][Next]_vars

(***************************************************************************)
(* extractors.extract_alpha_vantage_data and extract_yahoo_finance_data    *)
(***************************************************************************)
\* The frame a feed returns for one symbol on day now, after reset_index,
\* the symbol column and the renaming: one row per day of the window.  The
\* Yahoo frame has the columns Dividends and Stock Splits too.
Fetched(source, symbol, now) ==
    [cols |-> {"date", "open", "high", "low", "close", "volume", "symbol"}
              \cup (IF source = "yahoo_finance"
                    THEN {"Dividends", "Stock Splits"} ELSE {}),
     rows |-> [i \in 1..Window |->
                 [date |-> now - Window + i, symbol |-> symbol,
                  data_source |-> NaS,
                  close |-> IF source = "alpha_vantage" THEN 100 ELSE 106,
                  volume |-> 7]]]

\* Mutant: no try around the fetch of a symbol, so the first fetch that
\* fails ends the loop with nothing collected.
CollectUntilFailure(source, symbols, fetched, now) ==
    IF \E i \in 1..Len(symbols) : ~fetched[i]
    THEN <<>>
    ELSE [i \in 1..Len(symbols) |-> Fetched(source, symbols[i], now)]

\* The loop over the symbols: all_data holds the frames of the symbols whose
\* fetch succeeded, in the order of the list; a fetch that raises is logged
\* and the symbol skipped.
RECURSIVE CollectFrom(_, _, _, _, _)
CollectFrom(source, symbols, fetched, now, i) ==
    IF i > Len(symbols) THEN <<>>
    ELSE (IF fetched[i] THEN <<Fetched(source, symbols[i], now)>> ELSE <<>>)
         \o CollectFrom(source, symbols, fetched, now, i + 1)

Collect(source, symbols, fetched, now) ==
    CollectFrom(source, symbols, fetched, now, 1)

\* combined_data['data_source'] = <feed>; combined_data['extracted_at'] = now.
Stamp(frame, source) ==
    [cols |-> frame.cols \cup {"data_source", "extracted_at"},
     rows |-> [i \in 1..Len(frame.rows) |->
                 [frame.rows[i] EXCEPT !.data_source = source]]]

\* What the function raises or returns, and the frame it writes to
\* output_path.  TimeSeries(key=api_key) raises when it is given no key.
extract_alpha_vantage_data(symbols, output_path, api_key, fetched, now) ==
    IF ~api_key
    THEN [raised |-> "ValueError", returned |-> "none", out |-> NoFile]
    ELSE LET all_data == Collect("alpha_vantage", symbols, fetched, now)
         IN  IF all_data = <<>>
             THEN [raised |-> "ValueError", returned |-> "none", out |-> NoFile]
             ELSE [raised   |-> "no",
                   returned |-> output_path,
                   out      |-> WriteCsv(Stamp(Concat(all_data), "alpha_vantage"))]

columns_to_keep == {"date", "symbol", "open", "high", "low", "close", "volume",
                    "data_source", "extracted_at"}

\* The same for Yahoo Finance, which needs no key and keeps the columns of
\* columns_to_keep only.
extract_yahoo_finance_data(symbols, output_path, fetched, now) ==
    LET all_data == Collect("yahoo_finance", symbols, fetched, now)
    IN  IF all_data = <<>>
        THEN [raised |-> "ValueError", returned |-> "none", out |-> NoFile]
        ELSE LET combined_data == Stamp(Concat(all_data), "yahoo_finance")
             IN  IF ~(columns_to_keep \subseteq combined_data.cols)
                 THEN [raised |-> "KeyError", returned |-> "none", out |-> NoFile]
                 ELSE [raised   |-> "no",
                       returned |-> output_path,
                       out      |-> WriteCsv([combined_data EXCEPT
                                                 !.cols = columns_to_keep])]

(***************************************************************************)
(* SpecExtract: one call of an extractor, for every list of symbols within *)
(* the bounds and every outcome of the fetches, on files that an earlier   *)
(* run has or has not written                                              *)
(***************************************************************************)
\* Most symbols of the list handed to an extractor.
MaxSymbols == 2

ExtractSymbols == {"AAPL", "MSFT"}

SymbolLists == SeqsUpTo(ExtractSymbols, MaxSymbols)

\* The raw files are absent or hold the extraction of the day before.
InitExtract ==
    /\ \E old_av, old_yf \in BOOLEAN :
          files = [NoFiles EXCEPT
                      !["raw_av"] = IF old_av
                                    THEN Extracted("alpha_vantage", StartDay - 1)
                                    ELSE NoFile,
                      !["raw_yf"] = IF old_yf
                                    THEN Extracted("yahoo_finance", StartDay - 1)
                                    ELSE NoFile]
    /\ today = StartDay
    /\ df = NoFile
    /\ report = NoReport
    /\ lastOp = NoOp
    /\ IdleLoad
    /\ IdleDag

\* extract_alpha_vantage_data(symbols, output_path, api_key).  lastOp keeps
\* the output path followed by the symbols in paths, the frames collected
\* in inputs and the outcome of each fetch in chain.  Without a key no
\* fetch is made.
ExtractAlphaVantageCall(symbols, output_path, api_key, fetched) ==
    LET res == extract_alpha_vantage_data(symbols, output_path, api_key,
                                          fetched, today)
    IN  /\ ~api_key => \A i \in 1..Len(symbols) : ~fetched[i]
        /\ files' = IF res.raised = "no"
                    THEN [files EXCEPT ![output_path] = res.out]
                    ELSE files
        /\ lastOp' = [Op("extract_alpha_vantage_data", <<output_path>> \o symbols,
                         Collect("alpha_vantage", symbols, fetched, today),
                         res.raised, 0, fetched)
                       EXCEPT !.returned = res.returned]
        /\ UNCHANGED <<today, df, report, loadVars, dagVars>>

\* extract_yahoo_finance_data(symbols, output_path, '1mo').
ExtractYahooFinanceCall(symbols, output_path, fetched) ==
    LET res == extract_yahoo_finance_data(symbols, output_path, fetched, today)
    IN  /\ files' = IF res.raised = "no"
                    THEN [files EXCEPT ![output_path] = res.out]
                    ELSE files
        /\ lastOp' = [Op("extract_yahoo_finance_data", <<output_path>> \o symbols,
                         Collect("yahoo_finance", symbols, fetched, today),
                         res.raised, 0, fetched)
                       EXCEPT !.returned = res.returned]
        /\ UNCHANGED <<today, df, report, loadVars, dagVars>>

NextExtract ==
    \/ /\ lastOp.op = "none"
       /\ \E symbols \in SymbolLists, output_path \in {"raw_av", "raw_yf"} :
             \E fetched \in [1..Len(symbols) -> BOOLEAN], api_key \in BOOLEAN :
                 ExtractAlphaVantageCall(symbols, output_path, api_key, fetched)
    \/ /\ lastOp.op = "none"
       /\ \E symbols \in SymbolLists, output_path \in {"raw_av", "raw_yf"} :
             \E fetched \in [1..Len(symbols) -> BOOLEAN] :
                 ExtractYahooFinanceCall(symbols, output_path, fetched)

SpecExtract == InitExtract /\ [][NextExtract]_vars

(***************************************************************************)
(* Properties of the DAG (Spec)                                            *)
(***************************************************************************)
\* C1: whatever runs and loads have completed, no two rows of the
\* destination table share the same (date, symbol, data_source).
C1_NoDuplicateKeysInDestination ==
    \A i, j \in 1..Len(dest) :
        (dest[i].date = dest[j].date /\ dest[i].symbol = dest[j].symbol
            /\ dest[i].data_source = dest[j].data_source) => i = j

\* The stages that come before a task in the data flow of the pipeline:
\* extraction, raw validation, normalisation, merge, transformed
\* validation, upload, load.
StagesBefore(t) ==
    CASE t = "validate_raw_alpha_vantage_data" -> {"extract_alpha_vantage_data"}
      [] t = "validate_raw_yahoo_data" -> {"extract_yahoo_finance_data"}
      [] t = "transform_alpha_vantage_data" -> {"validate_raw_alpha_vantage_data"}
      [] t = "transform_yahoo_finance_data" -> {"validate_raw_yahoo_data"}
      [] t = "merge_datasets" -> {"transform_alpha_vantage_data",
                                  "transform_yahoo_finance_data"}
      [] t = "validate_transformed_data" -> {"merge_datasets"}
      [] t = "upload_to_gcs" -> {"validate_transformed_data"}
      [] t = "load_to_bigquery" -> {"validate_transformed_data", "upload_to_gcs"}
      [] OTHER -> {}

\* C16: within a run a task completes only after the stages before it in
\* the data flow have passed in that run: raw validation before
\* normalisation, both normalisations before merge, merge before
\* transformed validation, transformed validation before the load; so a
\* run whose validation failed loads nothing.
C16_StagesInDataFlowOrder ==
    [][\A t \in Tasks :
          (run' = run /\ taskState[t] = "none" /\ taskState'[t] = "success")
              => \A before \in StagesBefore(t) : taskState[before] = "success"]_vars

\* C17: a run starts only when no run is in flight: every task of the run
\* before it has finished, so no task of an earlier run writes to the
\* destination or to the files once the next run has started.
C17_SingleActiveRun ==
    [][run' # run => \A t \in Tasks : run = 0 \/ taskState[t] # "none"]_vars

\* The second run in flight, its load done and other tasks still to run,
\* after the first run had loaded too.
C17_Witness ==
    /\ run = 2
    /\ taskState["load_to_bigquery"] = "success"
    /\ taskState["extract_alpha_vantage_data"] = "none"
    /\ Len(dest) = 4 * Window

(***************************************************************************)
(* Properties of the extractors (SpecExtract)                              *)
(***************************************************************************)
ExtractorCalled ==
    lastOp.op \in {"extract_alpha_vantage_data", "extract_yahoo_finance_data"}

\* The feed identifier of the extractor called.
FeedOfCall ==
    IF lastOp.op = "extract_alpha_vantage_data" THEN "alpha_vantage"
                                                ELSE "yahoo_finance"

\* C27: a call of an extractor that returns returns the output path it was
\* given, and the file it wrote there holds rows of the extractor's feed
\* and of the requested symbols only, rows for each symbol whose fetch
\* succeeded and none for a symbol whose fetch failed; a call raises only
\* when no fetch succeeded, and a call that raises writes no file.
C27_ExtractorSkipsFailedSymbols ==
    [][ExtractorCalled' =>
        LET output_path == lastOp'.paths[1]
            symbols     == Tail(lastOp'.paths)
            fetched     == lastOp'.chain
            written     == files'[output_path].rows
        IN  /\ lastOp'.raised # "no" =>
                  /\ \A i \in 1..Len(symbols) : ~fetched[i]
                  /\ files' = files
            /\ lastOp'.raised = "no" =>
                  /\ lastOp'.returned = output_path
                  /\ \A f \in FileNames \ {output_path} : files'[f] = files[f]
                  /\ \A k \in 1..Len(written) :
                        /\ written[k].data_source = FeedOfCall'
                        /\ written[k].symbol \in Range(symbols)
                  /\ {written[k].symbol : k \in 1..Len(written)}
                        = {symbols[i] : i \in {j \in 1..Len(symbols) : fetched[j]}}]_vars

\* A call for two symbols where the fetch of the first failed: the file,
\* which held the extraction of the day before, holds the rows of the second
\* symbol alone.
C27_Witness ==
    /\ lastOp.op = "extract_alpha_vantage_data"
    /\ lastOp.paths = <<"raw_av", "AAPL", "MSFT">>
    /\ lastOp.chain = <<FALSE, TRUE>>
    /\ lastOp.raised = "no"
    /\ lastOp.returned = "raw_av"
    /\ Len(files["raw_av"].rows) = Window
    /\ \A k \in 1..Window : /\ files["raw_av"].rows[k].symbol = "MSFT"
                             /\ files["raw_av"].rows[k].date > StartDay - Window
    /\ files["raw_yf"] = Extracted("yahoo_finance", StartDay - 1)

\* A call whose fetches all failed raised and left the file of the day
\* before in place.
C27_WitnessAllFailed ==
    /\ lastOp.op = "extract_yahoo_finance_data"
    /\ lastOp.paths = <<"raw_yf", "AAPL", "MSFT">>
    /\ lastOp.chain = <<FALSE, FALSE>>
    /\ lastOp.raised = "ValueError"
    /\ files["raw_yf"] = Extracted("yahoo_finance", StartDay - 1)

(***************************************************************************)
(* Properties of the loaders (SpecLoad)                                    *)
(***************************************************************************)
\* C2: an upsert that repeats the input table and the key columns of the
\* upsert committed just before it leaves the destination as that upsert
\* left it: no step of the second call changes the destination.
C2_UpsertConverges == [][attempt.replay => dest' = dest]_vars

\* The same statement for inputs that hold no NULL in a key column.
UpsertConvergesOnNonNullKeys ==
    [][(/\ attempt.replay
        /\ \A i \in 1..Len(attempt.data) : \A col \in attempt.key_columns :
              attempt.data[i][col] # NullOf(col))
       => dest' = dest]_vars

\* Staged row s and destination row d are equal on all the key columns.
EqualOnKeys(s, d, key_columns) ==
    \A col \in key_columns : s[col] # NullOf(col) /\ s[col] = d[col]

\* Destination row d after the merge: with a matching staged row, its own
\* key columns and the staged values in every other column; without one, d.
Overwritten(d, source, key_columns) ==
    IF \E j \in 1..Len(source) : EqualOnKeys(source[j], d, key_columns)
    THEN LET s == source[CHOOSE j \in 1..Len(source) :
                            EqualOnKeys(source[j], d, key_columns)]
         IN  [col \in TableColumns |-> IF col \in key_columns THEN d[col] ELSE s[col]]
    ELSE d

Unmatched(target, source, key_columns) ==
    {j \in 1..Len(source) :
        \A i \in 1..Len(target) : ~EqualOnKeys(source[j], target[i], key_columns)}

\* C3: a merge that completes leaves in the destination, for every row it
\* held, that row with its non-key columns overwritten by the staged row
\* equal to it on all key columns (the row itself when no staged row is),
\* and every staged row that equals no destination row on the key columns,
\* as a full row; it holds nothing else and has lost nothing.
C3_MergeEffect ==
    [][(attempt.state = "STAGED" /\ attempt'.state = "MERGED") =>
        LET K   == attempt.key_columns
            new == Unmatched(dest, staging, K)
        IN  /\ Len(dest') = Len(dest) + Cardinality(new)
            /\ \A k \in 1..Len(dest') :
                  Cardinality({i \in 1..Len(dest') : dest'[i] = dest'[k]})
                    = Cardinality({i \in 1..Len(dest) :
                          Overwritten(dest[i], staging, K) = dest'[k]})
                      + Cardinality({j \in new : staging[j] = dest'[k]})]_vars

\* A merge that overwrote the price of one destination row with that of
\* the staged row of its key, inserted one staged row, and left one
\* destination row alone.
C3_Witness ==
    /\ attempt.state = "MERGED"
    /\ attempt.updated = 1 /\ attempt.inserted = 1
    /\ Len(dest) = 3
    /\ \E i \in 1..Len(dest) : dest[i].close = 105
    /\ \E i \in 1..Len(dest) : \A j \in 1..Len(staging) : dest[i] # staging[j]

\* The steps of the loaders that take an attempt to FAILED.
FailStep ==
    \/ \E job_done \in BOOLEAN : StageLoadFails(job_done)
    \/ \E job_done \in BOOLEAN : AppendLoadFails(job_done)
    \/ MergeQueryFails
    \/ MergeQuery /\ attempt'.state = "FAILED"
    \/ MergeResultFails

CanFail == ENABLED FailStep

\* The steps of an upsert attempt follow the edges of the state machine:
\* a state is entered from the state before it only, the destination
\* changes in the step from STAGED to MERGED only, success is the status
\* of COMMITTED only, and the step after COMMITTED or FAILED is the start
\* of another attempt, which touches no table.
UpsertEdges ==
    (attempt' # attempt /\ attempt'.mode = "upsert") =>
        /\ attempt'.state = "PENDING" => Finished
        /\ attempt'.state = "STAGED" => attempt.state = "PENDING"
        /\ attempt'.state = "MERGED" => attempt.state = "STAGED"
        /\ attempt'.state = "COMMITTED" => attempt.state = "MERGED"
        /\ attempt'.state = "FAILED" =>
              (attempt.state \in {"PENDING", "STAGED", "MERGED"} /\ FailStep)
        /\ dest' # dest => (attempt.state = "STAGED" /\ attempt'.state = "MERGED")
        /\ attempt'.status = "success" => attempt'.state = "COMMITTED"
        /\ attempt.state \in {"COMMITTED", "FAILED"} =>
              (attempt'.state = "PENDING" /\ dest' = dest /\ staging' = staging)

\* C13: the steps of every upsert attempt follow PENDING, STAGED, MERGED,
\* COMMITTED in that order, the MERGE runs only on a staged attempt,
\* success is reported only from MERGED, from each of PENDING, STAGED and
\* MERGED some step leads to FAILED, and the attempt takes no step after
\* COMMITTED or FAILED.
C13_UpsertStateMachine ==
    [][/\ UpsertEdges
       /\ (attempt.mode = "upsert"
              /\ attempt.state \in {"PENDING", "STAGED", "MERGED"}) => CanFail]_vars

\* An upsert that went through every state: two rows staged, merged into
\* the destination and reported.
C13_Witness ==
    /\ attempt.mode = "upsert"
    /\ attempt.state = "COMMITTED"
    /\ attempt.status = "success"
    /\ attempt.inserted = 2
    /\ staging = attempt.data

\* C14: no load call ends by raising: an attempt that meets an error of an
\* external system ends in FAILED, with status error and a detail in the
\* result it returns.
C14_ErrorsReturnedNeverRaised ==
    /\ attempt.state # "RAISED"
    /\ attempt.state = "FAILED" =>
          (attempt.status = "error" /\ attempt.detail # "none")

\* C15: whenever an upsert attempt is staged or merged, whatever earlier
\* attempts left in the staging table, the staging table holds the rows of
\* the attempt's input and no other row; they are the rows the MERGE reads.
C15_StagingIsCurrentInput ==
    (attempt.mode = "upsert" /\ attempt.state \in {"STAGED", "MERGED"}) =>
        staging = AsTable(attempt.data)

\* A merged upsert that had found the rows of an earlier attempt in the
\* staging table.
C15_Witness ==
    /\ attempt.mode = "upsert"
    /\ attempt.state = "MERGED"
    /\ attempt.stale
    /\ Len(attempt.data) = 1
    /\ staging = attempt.data

\* C29: an upsert attempt whose staging load does not succeed ends there:
\* the call returns the error result of the staging load, no MERGE is run
\* and the destination table is as it was before the attempt.
C29_FailedStagingLeavesDestination ==
    [][(/\ attempt.mode = "upsert" /\ attempt.state = "PENDING"
        /\ attempt' # attempt /\ attempt'.state # "STAGED") =>
          /\ attempt'.state = "FAILED"
          /\ attempt'.status = "error"
          /\ attempt'.detail = "load_job"
          /\ attempt'.updated = 0 /\ attempt'.inserted = 0
          /\ dest' = dest]_vars

(***************************************************************************)
(* Properties of merge_stock_datasets (SpecMerge)                          *)
(***************************************************************************)
KeyOf(r) == <<r.date, r.symbol, r.data_source>>

DistinctKeys(rows) == {KeyOf(rows[i]) : i \in 1..Len(rows)}

MergeReturned == lastOp.op = "merge" /\ lastOp.raised = "no"

\* C4: the table merge([T]) writes has as many rows as T has distinct
\* (date, symbol, data_source) keys, and no two of its rows share the key.
C4_MergedRowCountIsDistinctKeys ==
    (MergeReturned /\ Len(lastOp.inputs) = 1) =>
        LET T == lastOp.inputs[1].rows
            M == files["merged"].rows
        IN  /\ Len(M) = Cardinality(DistinctKeys(T))
            /\ \A i, j \in 1..Len(M) : i # j => KeyOf(M[i]) # KeyOf(M[j])

\* A merge of one table that held the same key twice.
C4_Witness ==
    /\ MergeReturned
    /\ lastOp.paths = <<"tr_av">>
    /\ Len(lastOp.inputs[1].rows) = 2
    /\ Len(files["merged"].rows) = 1

\* C5: merging the file a merge wrote returns that file again: the same
\* columns, the same rows, in the same order.
C5_MergeIdempotent ==
    (MergeReturned /\ lastOp.paths = <<"merged">>) =>
        files["merged"] = lastOp.inputs[1]

\* The output of merge([T]) merged again, where the first merge had changed
\* T (reordered it or dropped a duplicate).
C5_Witness ==
    /\ MergeReturned
    /\ lastOp.paths = <<"merged">>
    /\ lastOp.chain = <<"tr_yf">>
    /\ Len(files["tr_yf"].rows) = 2
    /\ files["merged"].rows # files["tr_yf"].rows

\* C6: for inputs A and B with disjoint business keys, merge([A, B]) has
\* as many rows as A and B have distinct keys together, whatever the close
\* prices of the rows that share a (date, symbol) are.
C6_SpreadCheckKeepsRows ==
    (/\ MergeReturned
     /\ Len(lastOp.inputs) = 2
     /\ DistinctKeys(lastOp.inputs[1].rows)
            \cap DistinctKeys(lastOp.inputs[2].rows) = {}) =>
        Len(files["merged"].rows)
            = Cardinality(DistinctKeys(lastOp.inputs[1].rows))
              + Cardinality(DistinctKeys(lastOp.inputs[2].rows))

\* Two inputs of one row each, for the same (date, symbol) from two feeds,
\* with prices more than 5% apart: both rows are in the output.
C6_Witness ==
    /\ MergeReturned
    /\ Len(lastOp.inputs) = 2
    /\ Len(lastOp.inputs[1].rows) = 1 /\ Len(lastOp.inputs[2].rows) = 1
    /\ LET a == lastOp.inputs[1].rows[1]
           b == lastOp.inputs[2].rows[1]
       IN  /\ a.date = b.date /\ a.symbol = b.symbol
           /\ a.data_source # b.data_source
           /\ a.close = 100 /\ b.close = 106
    /\ Len(files["merged"].rows) = 2

ValidatedMerged ==
    lastOp.op = "validate_transformed_data" /\ lastOp.paths = <<"merged">>

\* The price-inconsistency warnings of the report for one (symbol, date).
SpreadWarnings(symbol, date) ==
    {i \in 1..Len(report.warnings) :
        /\ report.warnings[i].kind = "price_inconsistency"
        /\ report.warnings[i].symbol = symbol
        /\ report.warnings[i].date = date}

\* C9: when the merged data passes the hard checks of validation, every
\* (date, symbol) group with more than one data_source gets exactly one
\* price-inconsistency warning, naming the symbol, the date and the
\* spread, if (max - min) / min * 100 > 5 and none otherwise; a group from
\* one data_source gets none.
C9_SpreadWarningPerGroup ==
    (ValidatedMerged /\ report.passed) =>
        \A k \in 1..Len(df.rows) :
            LET symbol  == df.rows[k].symbol
                date    == df.rows[k].date
                group   == {i \in 1..Len(df.rows) :
                               df.rows[i].symbol = symbol /\ df.rows[i].date = date}
                sources == {df.rows[i].data_source : i \in group}
                hi      == Max({df.rows[i].close : i \in group})
                lo      == Min({df.rows[i].close : i \in group})
                warns   == SpreadWarnings(symbol, date)
            IN  IF Cardinality(sources) > 1 /\ lo > 0 /\ (hi - lo) * 100 > 5 * lo
                THEN /\ Cardinality(warns) = 1
                     /\ \A i \in warns :
                           report.warnings[i].n * 2 * lo
                               \in ((2 * (hi - lo) * 10000 - lo) + 1) ..
                                   (2 * (hi - lo) * 10000 + lo)
                ELSE warns = {}

\* Validated merged data with one group from two feeds 6% apart, warned
\* about once, and one group from a single feed.
C9_Witness ==
    /\ ValidatedMerged /\ report.passed
    /\ Len(df.rows) = 2
    /\ df.rows[1].date = df.rows[2].date
    /\ df.rows[1].data_source # df.rows[2].data_source
    /\ {df.rows[1].close, df.rows[2].close} = {100, 106}
    /\ Len(report.warnings) = 1
    /\ report.warnings[1].n = 600

\* C10: when a merge drops n > 0 rows as duplicates of the business key,
\* the merge returns and a warning recording n is in what the merge returns
\* or in the report of the validation of its output.
C10_RemovedDuplicatesReported ==
    (lastOp.raised # "KeyError" /\ lastOp.removed > 0) =>
        \E w \in Range(lastOp.warnings) \cup Range(report.warnings) :
            w.kind = "duplicates" /\ w.n = lastOp.removed

\* C11: merge raises exactly when the input list is empty or the inputs it
\* could read hold no row between them; a path that cannot be read is
\* skipped and is no cause of its own.
C11_MergeRaisesIffNothingToMerge ==
    lastOp.op = "merge" =>
        ((lastOp.raised # "no")
            <=> (lastOp.paths = << >> \/ Concat(lastOp.inputs).rows = << >>))

\* C21: the order of the input list has no effect on the merge: the file
\* written from two inputs is the file the merge of the same two inputs in
\* the other order writes, also when both inputs hold a row of the same
\* business key with different values.
C21_MergeInputOrderIrrelevant ==
    (MergeReturned /\ Len(lastOp.paths) = 2 /\ Len(lastOp.inputs) = 2) =>
        files["merged"]
            = merge_stock_datasets(files, <<lastOp.paths[2], lastOp.paths[1]>>).out

\* C22: the merge changes no value: the merged file has the columns of the
\* inputs, every row of it is, cell for cell, a row of one of the inputs
\* read, and it holds no row more often than the inputs do together.
C22_MergeOnlyFiltersAndReorders ==
    MergeReturned =>
        LET given == Concat(lastOp.inputs)
            M     == files["merged"]
        IN  /\ M.cols = given.cols
            /\ \A i \in 1..Len(M.rows) :
                  /\ M.rows[i] \in Range(given.rows)
                  /\ Cardinality({j \in 1..Len(M.rows) : M.rows[j] = M.rows[i]})
                       <= Cardinality({j \in 1..Len(given.rows) :
                                         given.rows[j] = M.rows[i]})

\* A merge of two inputs of one row each, for one (date, symbol) from two
\* feeds at different prices, that wrote both rows in the other order.
C22_Witness ==
    /\ MergeReturned
    /\ Len(lastOp.inputs) = 2
    /\ Len(lastOp.inputs[1].rows) = 1 /\ Len(lastOp.inputs[2].rows) = 1
    /\ lastOp.inputs[1].rows[1].close # lastOp.inputs[2].rows[1].close
    /\ lastOp.inputs[1].rows[1].date = lastOp.inputs[2].rows[1].date
    /\ files["merged"].rows
          = <<lastOp.inputs[2].rows[1], lastOp.inputs[1].rows[1]>>

(***************************************************************************)
(* Properties of transform_stock_data (SpecTransform)                      *)
(***************************************************************************)
Transformed == lastOp.op = "transform_stock_data"

\* C12: a call with a source other than alpha_vantage and yahoo_finance
\* raises, and the step of the call leaves every file, the output written
\* by an earlier call included, as it was.
C12_UnknownSourceRaisesBeforeWriting ==
    [][(Transformed' /\ ~(lastOp'.paths[1] \in {"alpha_vantage", "yahoo_finance"}))
          => (lastOp'.raised # "no" /\ files' = files)]_vars

\* A call with an unknown source on a readable raw file, after an earlier
\* call had written the output file.
C12_Witness ==
    /\ Transformed
    /\ lastOp.chain = <<"alpha_vantage", "other_feed">>
    /\ lastOp.raised = "ValueError"
    /\ files["tr_av"] # NoFile
    /\ Len(files["tr_av"].rows) = 2

\* C26: in the file a call writes from a raw file with a volume column,
\* every volume is an integer that is not negative: the missing volume has
\* become 0 and no negative volume is left, whatever the raw values were.
C26_VolumeNonNegativeAfterTransform ==
    (/\ Transformed /\ lastOp.raised = "no"
     /\ "volume" \in lastOp.inputs[1].cols) =>
        \A i \in 1..Len(files["tr_av"].rows) :
            /\ files["tr_av"].rows[i].volume # NaN
            /\ files["tr_av"].rows[i].volume >= 0

(***************************************************************************)
(* Properties of the validators (SpecValidate)                             *)
(***************************************************************************)
ValidatedRaw == lastOp.op = "validate_raw_data"

Executed == lastOp.op = "execute"

Validated == lastOp.op \in {"validate_raw_data", "validate_transformed_data"}

\* The frame as it was handed to the validator.
Given == lastOp.inputs[1]

\* C7: a frame with a row whose close is negative fails validation, with a
\* non-empty errors list, under validate_raw_data with any validation_type
\* and under validate_transformed_data.
C7_NegativeCloseFails ==
    (Validated /\ \E i \in 1..Len(Given.rows) :
                     Given.rows[i].close # NaN /\ Given.rows[i].close < 0) =>
        /\ ~report.passed
        /\ ~report.is_valid
        /\ report.errors # << >>

\* A frame that is valid but for one negative close, refused for it.
C7_Witness ==
    /\ lastOp.op = "validate_transformed_data"
    /\ Given.cols = TransformedCols
    /\ Len(Given.rows) = 2
    /\ Given.rows[2].close = 0 - 1
    /\ report.errors = <<Err("negative_close")>>

\* C8: raw validation fails a frame with a row dated one day or more after
\* the current day, and the future-date check fails no frame whose rows
\* are all dated today or earlier.
C8_FutureDateBoundary ==
    ValidatedRaw =>
        /\ (\E i \in 1..Len(Given.rows) :
               Given.rows[i].date # NaN /\ Given.rows[i].date >= today + 1)
              => ~report.passed
        /\ (\A i \in 1..Len(Given.rows) :
               Given.rows[i].date = NaN \/ Given.rows[i].date <= today)
              => \A j \in 1..Len(report.errors) :
                    report.errors[j].kind # "future_dates"

\* A frame with one row dated today and one dated tomorrow, refused for the
\* one future date.
C8_Witness ==
    /\ ValidatedRaw
    /\ Len(Given.rows) = 2
    /\ Given.rows[1].date = today
    /\ Given.rows[2].date = today + 1
    /\ report.errors = <<Msg("future_dates", 1, NaS, NaN)>>

\* A frame whose rows are all dated today passes raw validation.
C8_WitnessToday ==
    /\ ValidatedRaw
    /\ Len(Given.rows) = 2
    /\ \A i \in 1..2 : Given.rows[i].date = today
    /\ report.passed

\* The call validated against one of the three schemas: raw validation with
\* the validation_type of a feed, or transformed validation.
ValidatedWithSchema ==
    \/ ValidatedRaw /\ lastOp.paths[1] \in {"alpha_vantage", "yahoo_finance"}
    \/ lastOp.op = "validate_transformed_data"

SchemaOfCall ==
    IF ~ValidatedRaw THEN get_transformed_data_schema
    ELSE IF lastOp.paths[1] = "alpha_vantage" THEN get_raw_alpha_vantage_schema
    ELSE get_raw_yahoo_finance_schema

\* A missing value in a column the schemas declare nullable=False.
HasMandatoryNull(rows) ==
    \E i \in 1..Len(rows) :
        \/ rows[i].date = NaN
        \/ rows[i].symbol = NaS
        \/ rows[i].close = NaN
        \/ rows[i].data_source = NaS

C18_WitnessEmpty ==
    /\ lastOp.op = "validate_transformed_data"
    /\ Given.cols = TransformedCols
    /\ Given.rows = << >>
    /\ report.errors = <<Err("schema")>>

\* The call gave validate_raw_data no validation_type, or one that names
\* no raw schema.
ValidatedWithoutSchema ==
    ValidatedRaw /\ ~(lastOp.paths[1] \in {"alpha_vantage", "yahoo_finance"})

NoNegativeCloseNoFutureDate(rows) ==
    \A i \in 1..Len(rows) :
        /\ rows[i].close = NaN \/ rows[i].close >= 0
        /\ rows[i].date = NaN \/ rows[i].date <= today

C24_TransformedValidationFailsFutureDates ==
    (/\ lastOp.op = "validate_transformed_data"
     /\ \E i \in 1..Len(Given.rows) :
           Given.rows[i].date # NaN /\ Given.rows[i].date > today)
        => (~report.passed /\ report.errors # << >>)

\* C28: validate_symbol_coverage returns passed False, with one error that
\* names the missing symbols, exactly when the frame has no symbol column
\* or some required symbol is in no row of it; symbols that are not
\* required add one warning and leave passed True.
C28_CoverageFailsIffRequiredSymbolMissing ==
    lastOp.op = "validate_symbol_coverage" =>
        LET required == lastOp.paths[1]
            present  == {Given.rows[i].symbol : i \in 1..Len(Given.rows)} \ {NaS}
            missing  == required \ present
            absent   == ~("symbol" \in Given.cols)
        IN  /\ ~report.passed <=> (absent \/ missing # {})
            /\ ~report.passed =>
                  /\ Len(report.errors) = 1
                  /\ ~absent => report.errors[1] = NamesMsg("missing_symbols", missing)
            /\ report.passed =>
                  report.warnings = IF present \ required # {}
                                    THEN <<NamesMsg("extra_symbols", present \ required)>>
                                    ELSE << >>

\* A validator has returned a report, to its caller or to the operator.
ReportReturned ==
    \/ lastOp.op \in {"validate_raw_data", "validate_transformed_data",
                      "validate_data_freshness", "validate_symbol_coverage",
                      "validate_bigquery_schema_compatibility"}
    \/ Executed /\ report.ran

\* C30: in the report of every validator, passed is False exactly when the
\* errors list is not empty, the is_valid flag returned with the report
\* equals passed, and a failed report holds exactly one error.
C30_PassedIffNoErrors ==
    ReportReturned =>
        /\ ~report.passed <=> report.errors # << >>
        /\ report.is_valid = report.passed
        /\ ~report.passed => Len(report.errors) = 1

\* The freshness validator failed a frame with two rows, the newer one
\* dated the day before the cutoff, with the one error.
C30_Witness ==
    /\ lastOp.op = "validate_data_freshness"
    /\ lastOp.paths = <<0>>
    /\ Len(Given.rows) = 2
    /\ Given.rows[1].date = today - OneYearDays
    /\ Given.rows[2].date = today - 1
    /\ ~report.passed /\ ~report.is_valid
    /\ report.errors = <<Msg("too_old", 0, NaS, today - 1)>>

\* The schema compatibility validator passed a frame with a missing volume
\* and a column the schema does not have, with two warnings and no error.
C30_WitnessWarnings ==
    /\ lastOp.op = "validate_bigquery_schema_compatibility"
    /\ Given.cols = RawCols \cup DerivedCols
    /\ Len(Given.rows) = 1
    /\ Given.rows[1].volume = NaN
    /\ report.passed /\ report.is_valid
    /\ report.errors = << >>
    /\ report.warnings = <<NamesMsg("type_issue", {"volume"}),
                           NamesMsg("extra_columns", {"extracted_at",
                               "daily_change_pct", "daily_volatility"})>>

\* C19: after validate_raw_data or validate_transformed_data has returned,
\* with any outcome, the frame passed in has the columns and the rows it
\* had before the call.
C19_ValidateLeavesFrameUnchanged ==
    Validated => (df.cols = Given.cols /\ df.rows = Given.rows)

\* The feeds the DAG extracts from.
ConfiguredSources == {"alpha_vantage", "yahoo_finance"}

\* The call ran validate_transformed_data, directly or in the operator.
ValidatedTransformed ==
    \/ lastOp.op = "validate_transformed_data"
    \/ Executed /\ report.ran /\ lastOp.paths[1] = "validate_transformed_data"

\* C25: every row of a frame that passes transformed validation carries
\* the name of one of the configured feeds in data_source, so a row with
\* another data_source is stopped before the load.
C25_PassedRowsHaveConfiguredSource ==
    (ValidatedTransformed /\ report.passed) =>
        \A i \in 1..Len(Given.rows) :
            Given.rows[i].data_source \in ConfiguredSources

\* C20: a validation that records no error returns passed and is_valid
\* True, whatever warnings it records; the operator, once it has called
\* the validation callable, raises exactly when the callable returned
\* is_valid False; so results with warnings and no error never raise.
C20_WarningsNeverAbort ==
    /\ ((Validated \/ Executed) /\ report.ran /\ report.errors = << >>)
          => (report.passed /\ report.is_valid)
    /\ (Executed /\ report.ran)
          => ((lastOp.raised # "no") <=> ~report.is_valid)
    /\ (Executed /\ report.ran /\ report.errors = << >>)
          => lastOp.raised = "no"

\* The operator returned results with two warnings and no error.
C20_Witness ==
    /\ Executed
    /\ lastOp.raised = "no"
    /\ report.errors = << >>
    /\ Len(report.warnings) = 2
    /\ report.passed

====
